---- MODULE Spec2Model ----
(***************************************************************************)
(* The action execution engine of the datapath (datapath/actions.c): the   *)
(* per-CPU deferred-action FIFO, the loop-depth guard, the staged-output   *)
(* executor do_execute_actions, sample, recirc and the drain.              *)
(*                                                                         *)
(* One CPU is modelled.  The C call stack is the variable `stack': every   *)
(* activation of do_execute_actions is a frame, either inside an           *)
(* ovs_execute_actions call (fn = "ovs") or started by the drain for a     *)
(* deferred sample list (fn = "da").                                       *)
(***************************************************************************)
EXTENDS Integers, Sequences, FiniteSets, TLC

\* ----------------------------------------------------------------- bounds
MaxLen == 2          \* longest top-level action list of the flow
MaxFaults == 1       \* per packet: failed allocations, extractions and upcalls,
                     \* and draws at or above a non-zero sampling threshold
MaxPackets == 2      \* packets received one after the other on the CPU
MaxRand == 1         \* prandom_u32() draws range over 0..MaxRand

\* ------------------------------------------------------ program constants
DEFERRED_ACTION_FIFO_SIZE == 10
EXEC_ACTIONS_LEVEL_LIMIT == 4

NoPort == 0 - 1                  \* prev_port = -1

\* ------------------------------------------------------------ environment
\* The port table: port 1 transmits, port 2 is a port whose send re-enters
\* the datapath on the same CPU, port 3 is not in the table.
Ports == {1, 2, 3}
PortNormal == CHOOSE p \in Ports : p = 1
PortInternal == CHOOSE p \in Ports : p = 2
PortMissing == CHOOSE p \in Ports : p = 3

\* The flow table: the installed flow matches recirc_id 0; a lookup with
\* recirc_id 1 misses.
RecircIds == {0, 1}
RecircFlow == CHOOSE r \in RecircIds : r = 0
RecircMiss == CHOOSE r \in RecircIds : r = 1

\* VLAN TCI values: of the PUSH_VLAN attribute, of the accel tag and of the
\* in-band tag a packet may arrive with.
Tcis == {5, 3, 4}
NewTci == CHOOSE t \in Tcis : t = 5
AccelTci == CHOOSE t \in Tcis : t = 3
InbandTci == CHOOSE t \in Tcis : t = 4

\* ------------------------------------------------------------ action lists
Act(op, arg) == [op |-> op, arg |-> arg, acts |-> <<>>]
Output(p) == Act("OUTPUT", p)
Userspace == Act("USERSPACE", 0)
Hash == Act("HASH", 0)
PushMpls == Act("PUSH_MPLS", 0)
PopMpls == Act("POP_MPLS", 0)
PushVlan == Act("PUSH_VLAN", NewTci)
PopVlan == Act("POP_VLAN", 0)
Recirc(r) == Act("RECIRC", r)
SetMark == Act("SET_MARK", 1)
SetIpv4 == Act("SET_IPV4", 1)
Sample(prob, nested) == [op |-> "SAMPLE", arg |-> prob, acts |-> nested]

\* Nested lists of the SAMPLE attributes used as inputs.
NestedLists ==
    { <<>>, <<Userspace>>, <<Output(PortNormal)>>, <<Recirc(RecircFlow)>>,
      <<Sample(MaxRand, <<Output(PortNormal)>>)>>,
      <<Output(PortNormal), Userspace>>, <<PopVlan, Output(PortNormal)>> }

Actions ==
    {Output(p) : p \in Ports} \cup {Recirc(r) : r \in RecircIds}
    \cup {Userspace, Hash, PushMpls, PopMpls, PushVlan, PopVlan, SetMark, SetIpv4}
    \cup {Sample(MaxRand, n) : n \in NestedLists}
    \cup {Sample(0, <<Userspace>>)}

RECURSIVE ListsOf(_)
ListsOf(n) ==
    IF n = 0 THEN {<<>>}
    ELSE LET shorter == ListsOf(n - 1)
         IN shorter \cup {Append(l, a) : l \in {s \in shorter : Len(s) = n - 1},
                                          a \in Actions}

\* Longer lists: two OUTPUTs around a mutation, the multi-output and the
\* recirc-not-last scenarios followed by an action, a sample and a recirc
\* before an output through the internal port.
LongLists ==
    { <<Output(PortNormal), SetMark, Output(PortNormal)>>,
      <<Output(PortNormal), Output(PortMissing), PushMpls>>,
      <<Recirc(RecircFlow), Output(PortNormal), SetIpv4>>,
      <<PushVlan, PopVlan, Userspace>>,
      <<Sample(MaxRand, <<Output(PortNormal)>>), Recirc(RecircFlow),
        Output(PortInternal)>> }

ActionLists == ListsOf(MaxLen) \cup LongLists

\* Netlink attributes: an attribute is a 4-byte header and a payload, padded
\* to a multiple of 4 in a list.  The payloads are those of the action
\* attributes: a u32 for OUTPUT and RECIRC, nothing for POP_VLAN, a be16 for
\* POP_MPLS, a struct or nested attributes for the others; SAMPLE nests a
\* probability attribute and an actions attribute holding the nested list.
NLA_HDRLEN == 4

NLA_ALIGN(n) == ((n + 3) \div 4) * 4

RECURSIVE nla_len(_)
RECURSIVE attrs_len(_)
\* nla_len(a): the payload length of attribute a.
nla_len(a) ==
    CASE a.op \in {"OUTPUT", "RECIRC", "PUSH_VLAN"} -> 4
      [] a.op = "POP_VLAN" -> 0
      [] a.op = "POP_MPLS" -> 2
      [] a.op = "SET_IPV4" -> 16
      [] a.op = "SAMPLE" -> 8 + NLA_HDRLEN + attrs_len(a.acts)
      [] OTHER -> 8

\* a->nla_len: header and payload.
nla_attr_len(a) == NLA_HDRLEN + nla_len(a)

\* The length of a list of attributes.
attrs_len(list) ==
    IF list = <<>> THEN 0
    ELSE NLA_ALIGN(nla_attr_len(Head(list))) + attrs_len(Tail(list))

\* ------------------------------------------------------------------ state
VARIABLES
    exec_actions_level,  \* per-CPU recursion depth
    action_fifos,        \* per-CPU FIFO: [head, tail, fifo]
    stack,               \* active do_execute_actions activations, innermost last
    skbs,                \* the packet buffers: [st, data, rel]
    flow,                \* the installed flow's action list
    faults,              \* failures (and high draws) the environment may still produce
    packets,             \* packets received so far
    upcalls,             \* upcalls made for the current packet
    calls,               \* ovs_execute_actions entries for the current packet
    enq,                 \* packets the FIFO accepted, in order
    deq,                 \* deferred items the drain has started, in order
    rejected,            \* packets whose deferral the FIFO refused
    last_run,            \* the activation of do_execute_actions that returned last
    result               \* value returned by the outermost call

vars == <<exec_actions_level, action_fifos, stack, skbs, flow, faults, packets,
          upcalls, calls, enq, deq, rejected, last_run, result>>

\* -------------------------------------------------------- packets and keys
\* Lengths of the Ethernet header and of one 802.1Q header.
ETH_HLEN == 14
VLAN_HLEN == 4

PlainPacket ==
    [vlan_tci |-> 0, h_proto |-> "IP", tags |-> <<>>, mpls |-> 0,
     protocol |-> "IP", inner |-> "NONE", mark |-> 0, ttl |-> 0,
     mac_len |-> ETH_HLEN]

\* An accel tag over one in-band 802.1Q tag.
TaggedPacket ==
    [PlainPacket EXCEPT !.vlan_tci = AccelTci, !.h_proto = "8021Q",
                        !.tags = <<[tci |-> InbandTci, proto |-> "IP"]>>,
                        !.protocol = "8021Q", !.mac_len = ETH_HLEN + VLAN_HLEN]

InitPackets == {PlainPacket, TaggedPacket}

\* key_extract of the flow module: the key fields read from the packet.
key_extract(p, k) ==
    [k EXCEPT !.valid = TRUE,
              !.tci = IF p.vlan_tci # 0 THEN p.vlan_tci
                      ELSE IF p.h_proto = "8021Q" /\ p.tags # <<>>
                           THEN p.tags[1].tci ELSE 0,
              !.ttl = p.ttl]

ZeroKey == [valid |-> FALSE, tci |-> 0, recirc_id |-> 0, mark |-> 0, ttl |-> 0,
            ovs_flow_hash |-> 0]

\* The key of a packet entering the datapath from a port.
ReceiveKey(p) == key_extract(p, [ZeroKey EXCEPT !.mark = p.mark])

invalidate_flow_key(k) == [k EXCEPT !.valid = FALSE]

is_flow_key_valid(k) == k.valid

\* ------------------------------------------------------------------- FIFO
NoItem == [skb |-> 0, recirc |-> FALSE, actions |-> <<>>, pkt_key |-> ZeroKey]

\* The reset of line 954 left out.
action_fifo_init_skipped(fifo) == fifo

action_fifo_init(fifo) == [fifo EXCEPT !.head = 0, !.tail = 0]

action_fifo_is_empty(fifo) == fifo.head = fifo.tail

\* The test of line 89 against the full array size.
action_fifo_put_slot_full(fifo) ==
    IF fifo.head >= DEFERRED_ACTION_FIFO_SIZE THEN 0 - 1 ELSE fifo.head

\* The test of line 89 left out.
action_fifo_put_slot_unbounded(fifo) == fifo.head

\* The slot index returned, or -1 for NULL.
action_fifo_put_slot(fifo) ==
    IF fifo.head >= DEFERRED_ACTION_FIFO_SIZE - 1 THEN 0 - 1 ELSE fifo.head

action_fifo_put(fifo) ==
    IF action_fifo_put_slot(fifo) < 0 THEN fifo ELSE [fifo EXCEPT !.head = @ + 1]

\* The newest item taken instead of the oldest.
action_fifo_get_slot_newest(fifo) ==
    IF action_fifo_is_empty(fifo) THEN 0 - 1 ELSE fifo.head - 1

action_fifo_get_slot(fifo) ==
    IF action_fifo_is_empty(fifo) THEN 0 - 1 ELSE fifo.tail

\* The indices reset as soon as the last item is taken, not at line 954.
action_fifo_get_resetting(fifo) ==
    IF action_fifo_is_empty(fifo) THEN fifo
    ELSE IF fifo.tail + 1 = fifo.head THEN [fifo EXCEPT !.head = 0, !.tail = 0]
    ELSE [fifo EXCEPT !.tail = @ + 1]

action_fifo_get(fifo) ==
    IF action_fifo_is_empty(fifo) THEN fifo ELSE [fifo EXCEPT !.tail = @ + 1]

\* The key copy of line 108 left out.
add_deferred_actions_nokey(fifo, skb, key, recirc, attr) ==
    LET da == action_fifo_put_slot(fifo)
    IN IF da < 0 THEN fifo
       ELSE [action_fifo_put(fifo) EXCEPT
                !.fifo[da] = [skb |-> skb, recirc |-> recirc, actions |-> attr,
                              pkt_key |-> fifo.fifo[da].pkt_key]]

\* add_deferred_actions: the FIFO afterwards (unchanged when it is full).
\* recirc = TRUE stands for attr = NULL.
add_deferred_actions(fifo, skb, key, recirc, attr) ==
    LET da == action_fifo_put_slot(fifo)
    IN IF da < 0 THEN fifo
       ELSE [action_fifo_put(fifo) EXCEPT
                !.fifo[da] = [skb |-> skb, recirc |-> recirc, actions |-> attr,
                              pkt_key |-> key]]

\* --------------------------------------------------------- header mutators
\* A mutator's outcome: the error, the packet and key afterwards, whether the
\* packet was freed by the mutator, and the number of injected failures (f).
\* n is the number of failures the environment may still inject.
Res(err, p, k, f) == [err |-> err, p |-> p, k |-> k, freed |-> FALSE, f |-> f]

make_writable(n) == {"OK"} \cup (IF n > 0 THEN {"ENOMEM"} ELSE {})

push_mpls(p, k, n) ==
    {Res("OK",
         [p EXCEPT !.mpls = @ + 1, !.h_proto = "MPLS",
                   !.inner = IF @ = "NONE" THEN p.protocol ELSE @,
                   !.protocol = "MPLS"],
         invalidate_flow_key(k), 0)}
    \cup (IF n > 0 THEN {Res("ENOMEM", p, k, 1)} ELSE {})

\* The ethertype written by pop_mpls goes to the last ethertype field of the
\* mac header (mac_header_end - ETH_HLEN).
pop_mpls(p, k, ethertype, n) ==
    {IF e = "OK"
     THEN Res("OK",
              [p EXCEPT !.mpls = IF @ > 0 THEN @ - 1 ELSE 0,
                        !.h_proto = IF p.tags = <<>> THEN ethertype ELSE @,
                        !.tags = IF p.tags = <<>> THEN @
                                 ELSE [@ EXCEPT ![Len(p.tags)].proto = ethertype],
                        !.protocol = IF @ = "MPLS" THEN ethertype ELSE @],
              invalidate_flow_key(k), 0)
     ELSE Res(e, p, k, 1) : e \in make_writable(n)}

\* __pop_vlan_tci: outcomes [err, p, tci, f].
pop_vlan_tci(p, n) ==
    {IF e = "OK"
     THEN [err |-> "OK",
           p |-> IF p.tags = <<>> THEN p
                 ELSE [p EXCEPT !.h_proto = p.tags[1].proto,
                                !.tags = Tail(@),
                                !.protocol = p.tags[1].proto,
                                !.mac_len = @ - VLAN_HLEN],
           tci |-> IF p.tags = <<>> THEN 0 ELSE p.tags[1].tci, f |-> 0]
     ELSE [err |-> e, p |-> p, tci |-> 0, f |-> 1] : e \in make_writable(n)}

\* Lines 275-288 of pop_vlan without the invalidate_flow_key of line 282; and
\* as they are: move the next in-band tag to the accel slot.
pop_vlan_promote_valid(p, k, n, f) ==
    IF p.protocol # "8021Q"
    THEN {Res("OK", p, [k EXCEPT !.tci = 0], f)}
    ELSE {IF r.err = "OK"
          THEN Res("OK", [r.p EXCEPT !.vlan_tci = r.tci], k, f + r.f)
          ELSE Res(r.err, r.p, k, f + r.f)
          : r \in pop_vlan_tci(p, n)}

pop_vlan_promote(p, k, n, f) ==
    IF p.protocol # "8021Q"
    THEN {Res("OK", p, [k EXCEPT !.tci = 0], f)}
    ELSE {IF r.err = "OK"
          THEN Res("OK", [r.p EXCEPT !.vlan_tci = r.tci], invalidate_flow_key(k),
                   f + r.f)
          ELSE Res(r.err, r.p, invalidate_flow_key(k), f + r.f)
          : r \in pop_vlan_tci(p, n)}

pop_vlan(p, k, n) ==
    IF p.vlan_tci # 0
    THEN pop_vlan_promote([p EXCEPT !.vlan_tci = 0], k, n, 0)
    ELSE IF p.protocol # "8021Q"
         THEN {Res("OK", p, k, 0)}
         ELSE UNION {IF r.err = "OK" THEN pop_vlan_promote(r.p, k, n - r.f, r.f)
                     ELSE {Res(r.err, r.p, k, r.f)} : r \in pop_vlan_tci(p, n)}

\* push_vlan: __vlan_put_tag frees the packet when it fails.
push_vlan(p, k, tci, n) ==
    IF p.vlan_tci # 0
    THEN {Res("OK",
              [p EXCEPT !.tags = <<[tci |-> p.vlan_tci, proto |-> p.h_proto]>> \o @,
                        !.h_proto = "8021Q", !.protocol = "8021Q",
                        !.mac_len = @ + VLAN_HLEN,
                        !.vlan_tci = tci],
              invalidate_flow_key(k), 0)}
         \cup (IF n > 0
               THEN {[Res("ENOMEM", p, k, 1) EXCEPT !.freed = TRUE]}
               ELSE {})
    ELSE {Res("OK", [p EXCEPT !.vlan_tci = tci], [k EXCEPT !.tci = tci], 0)}

set_ipv4(p, k, ttl, n) ==
    {IF e = "OK"
     THEN Res("OK", [p EXCEPT !.ttl = ttl], [k EXCEPT !.ttl = ttl], 0)
     ELSE Res(e, p, k, 1) : e \in make_writable(n)}

\* execute_set_action: OVS_KEY_ATTR_SKB_MARK and OVS_KEY_ATTR_IPV4.
execute_set_action(p, k, a, n) ==
    IF a.op = "SET_MARK"
    THEN {Res("OK", [p EXCEPT !.mark = a.arg], [k EXCEPT !.mark = a.arg], 0)}
    ELSE set_ipv4(p, k, a.arg, n)

\* execute_hash: the hash stored is never zero.
execute_hash(p, k) == {Res("OK", p, [k EXCEPT !.ovs_flow_hash = 1], 0)}

\* ----------------------------------------------------------------- frames
\* fn: "ovs" for the list run by ovs_execute_actions, "da" for a deferred
\* sample list run by process_deferred_actions.  via: how the call was made
\* ("rx" from outside, "port" through a port send, "recirc" by the drain).
\* pc: "enter" (before the level check), "loop" (in do_execute_actions),
\* "post" (do_execute_actions has returned), "drain" (in the drain loop).
\* acts: the attributes from attr on, len: the len argument, i: the cursor a,
\* rem: what is left of len, draw: the last value sample() got from
\* prandom_u32() (-1: none yet).
\* out: the do_output calls made, ref: the OUTPUT actions reached.
Frame(fn, via, acts, len, skb, key) ==
    [fn |-> fn, via |-> via, lvl |-> 0 - 1, acts |-> acts, i |-> 1,
     len |-> len, rem |-> len, draw |-> 0 - 1,
     prev_port |-> NoPort, skb |-> skb, key |-> key,
     pc |-> IF fn = "ovs" THEN "enter" ELSE "loop",
     err |-> "OK", out |-> <<>>, ref |-> <<>>]

NoFrame == Frame("da", "none", <<>>, 0, 0, ZeroKey)

Top == stack[Len(stack)]
Rest == SubSeq(stack, 1, Len(stack) - 1)

NewSkb(data, st) == [st |-> st, data |-> data, rel |-> 0]

\* kfree_skb, consume_skb and a port's send all end the executor's ownership.
Release(s, id, how) == [s EXCEPT ![id].st = how, ![id].rel = @ + 1]

vport_exists(port) == port # PortMissing

\* do_output on the buffers: send when the port exists, free otherwise.
do_output(s, id, port) ==
    IF vport_exists(port) THEN Release(s, id, "sent") ELSE Release(s, id, "freed")

\* The frames a port send adds: the internal port hands the packet back to
\* the datapath as a received packet (buffer id), which matches the flow.
PortReentry(s, id, port, id2) ==
    IF port = PortInternal
    THEN <<Frame("ovs", "port", flow, attrs_len(flow), id2, ReceiveKey(s[id].data))>>
    ELSE <<>>

PortSkbs(s, id, port) ==
    IF port = PortInternal THEN Append(s, NewSkb(s[id].data, "live")) ELSE s

\* The stack after do_execute_actions returns err in the top frame f: an
\* "ovs" frame goes on in ovs_execute_actions, a "da" frame returns to the
\* drain loop, which ignores the value.
Returned(f, err) == [f EXCEPT !.pc = "post", !.err = err]

\* The drain taking the value of a deferred list as the call's own.
Ret_propagating(f, err) ==
    IF f.fn = "ovs" THEN Append(Rest, Returned(f, err))
    ELSE Append(SubSeq(Rest, 1, Len(Rest) - 1),
                [Rest[Len(Rest)] EXCEPT !.err = IF err # "OK" THEN err ELSE @])

Ret(f, err) ==
    IF f.fn = "ovs" THEN Append(Rest, Returned(f, err)) ELSE Rest

Init ==
    /\ exec_actions_level = 0
    /\ action_fifos = [head |-> 0, tail |-> 0,
                       fifo |-> [i \in 0..(DEFERRED_ACTION_FIFO_SIZE - 1) |-> NoItem]]
    /\ stack = <<>>
    /\ skbs = <<>>
    /\ flow \in ActionLists
    /\ faults = 0
    /\ packets = 0
    /\ upcalls = <<>>
    /\ calls = <<>>
    /\ enq = <<>>
    /\ deq = <<>>
    /\ rejected = {}
    /\ last_run = NoFrame
    /\ result = "NONE"

\* A packet arrives while the CPU is idle: the datapath matches the flow and
\* calls ovs_execute_actions.
Receive ==
    /\ stack = <<>>
    /\ packets < MaxPackets
    /\ \E p \in InitPackets :
          /\ skbs' = <<NewSkb(p, "live")>>
          /\ stack' = <<Frame("ovs", "rx", flow, attrs_len(flow), 1, ReceiveKey(p))>>
    /\ packets' = packets + 1
    /\ faults' = MaxFaults
    /\ upcalls' = <<>>
    /\ calls' = <<>>
    /\ enq' = <<>>
    /\ deq' = <<>>
    /\ rejected' = {}
    /\ last_run' = NoFrame
    /\ result' = "NONE"
    /\ UNCHANGED <<exec_actions_level, action_fifos, flow>>

\* The guard of line 965 with > for >=.
loop_detected_late(level) == level > EXEC_ACTIONS_LEVEL_LIMIT

\* Line 965: the packet is looping.
loop_detected(level) == level >= EXEC_ACTIONS_LEVEL_LIMIT

\* The test of line 978 off by one, and left out.
should_drain_nested(level) == level <= 1

\* Line 975: this_cpu_inc(exec_actions_level).
this_cpu_inc(level) == level + 1

\* Line 980 left out.
this_cpu_dec_skipped(level) == level

\* Line 980: this_cpu_dec(exec_actions_level).
this_cpu_dec(level) == level - 1

should_drain_always(level) == TRUE

\* Line 978: only a call entered at level 0 drains.
should_drain(level) == level = 0

\* ovs_execute_actions, lines 962-974: the loop-depth guard.
Enter ==
    /\ stack # <<>>
    /\ Top.pc = "enter"
    /\ LET f == Top
           level == exec_actions_level
       IN /\ calls' = Append(calls, [lvl |-> level, via |-> f.via,
                                     loop |-> loop_detected(level)])
          /\ IF loop_detected(level)
             THEN /\ skbs' = Release(skbs, f.skb, "freed")
                  /\ stack' = Rest
                  /\ result' = IF Rest = <<>> THEN "ELOOP" ELSE result
                  /\ UNCHANGED exec_actions_level
             ELSE /\ exec_actions_level' = this_cpu_inc(level)
                  /\ stack' = Append(Rest, [f EXCEPT !.lvl = level, !.pc = "loop"])
                  /\ UNCHANGED <<skbs, result>>
    /\ UNCHANGED <<action_fifos, flow, faults, packets, upcalls, enq, deq, rejected,
                   last_run>>

\* ------------------------------------------------------ do_execute_actions
\* The staged port never looked at.
pending_ignored(f) == FALSE

\* Line 858 and line 924: an OUTPUT is staged in prev_port.
pending(f) == f.prev_port # NoPort

\* The top frame is at the switch of do_execute_actions (no output pending)
\* and the attribute under the cursor has opcode op.
AtAction(op) ==
    /\ stack # <<>>
    /\ Top.pc = "loop"
    /\ Top.rem > 0
    /\ ~pending(Top)
    /\ Top.acts[Top.i].op = op

last_action(f) == nla_attr_len(f.acts[f.i]) = f.rem

\* Line 855: a = nla_next(a, &rem).
nla_next(f) ==
    [f EXCEPT !.i = @ + 1, !.rem = @ - NLA_ALIGN(nla_attr_len(f.acts[f.i]))]

OutRec(port, data, id, orig) ==
    [port |-> port, data |-> data, skb |-> id, orig |-> orig]

\* Lines 858-865: the pending output goes out on a clone before the next
\* attribute is looked at.
Flush ==
    /\ stack # <<>>
    /\ Top.pc = "loop"
    /\ Top.rem > 0
    /\ pending(Top)
    /\ LET f == Top
           port == f.prev_port
           out_skb == Len(skbs) + 1
       IN \/ /\ faults > 0                  \* skb_clone returns NULL
             /\ faults' = faults - 1
             /\ stack' = Append(Rest, [f EXCEPT !.prev_port = NoPort,
                                                !.ref[Len(f.ref)].lost = TRUE])
             /\ UNCHANGED skbs
          \/ /\ LET s1 == Append(skbs, NewSkb(skbs[f.skb].data, "live"))
                    s2 == do_output(s1, out_skb, port)
                    f2 == [f EXCEPT !.prev_port = NoPort,
                                    !.out = Append(@, OutRec(port, skbs[f.skb].data,
                                                             out_skb, FALSE))]
                IN /\ skbs' = PortSkbs(s2, out_skb, port)
                   /\ stack' = Append(Rest, f2)
                                 \o PortReentry(s2, out_skb, port, out_skb + 1)
             /\ UNCHANGED faults
    /\ UNCHANGED <<exec_actions_level, action_fifos, flow, packets, upcalls, calls,
                   enq, deq, rejected, last_run, result>>

\* OVS_ACTION_ATTR_OUTPUT: stage the port.
ActOutput ==
    /\ AtAction("OUTPUT")
    /\ LET f == Top
       IN stack' = Append(Rest,
              [nla_next(f) EXCEPT
                    !.prev_port = f.acts[f.i].arg,
                    !.ref = Append(@, [port |-> f.acts[f.i].arg,
                                       data |-> skbs[f.skb].data,
                                       lost |-> FALSE])])
    /\ UNCHANGED <<exec_actions_level, action_fifos, skbs, flow, faults, packets,
                   upcalls, calls, enq, deq, rejected, last_run, result>>

\* ovs_dp_upcall as seen by the executor: the packet stays with the caller; the
\* upcall may fail.
Upcall(cmd, id, key, ok) == [cmd |-> cmd, skb |-> id, valid |-> key.valid, ok |-> ok]

\* OVS_ACTION_ATTR_USERSPACE: the value of output_userspace is dropped.
ActUserspace ==
    /\ AtAction("USERSPACE")
    /\ LET f == Top
       IN /\ \E ok \in {TRUE} \cup (IF faults > 0 THEN {FALSE} ELSE {}) :
                /\ upcalls' = Append(upcalls, Upcall("ACTION", f.skb, f.key, ok))
                /\ faults' = IF ok THEN faults ELSE faults - 1
          /\ stack' = Append(Rest, nla_next(f))
    /\ UNCHANGED <<exec_actions_level, action_fifos, skbs, flow, packets, calls,
                   enq, deq, rejected, last_run, result>>

\* The early return of line 891 left out.
exec_frees_always(op) == TRUE

\* The executor after a header mutator returned r for opcode op: lines 918-921
\* free the packet and return the error; PUSH_VLAN returns at once (line 891).
exec_frees(op) == op # "PUSH_VLAN"

AfterMutator(f, r, op) ==
    LET s1 == [skbs EXCEPT ![f.skb].data = r.p]
        s2 == IF r.freed THEN Release(s1, f.skb, "freed") ELSE s1
        f2 == [f EXCEPT !.key = r.k]
    IN /\ faults' = faults - r.f
       /\ IF r.err = "OK"
          THEN /\ skbs' = s2
               /\ stack' = Append(Rest, nla_next(f2))
               /\ UNCHANGED last_run
          ELSE /\ skbs' = IF exec_frees(op) THEN Release(s2, f.skb, "freed") ELSE s2
               /\ stack' = Ret(f2, r.err)
               /\ last_run' = Returned(f2, r.err)
       /\ UNCHANGED <<exec_actions_level, action_fifos, flow, packets, upcalls, calls,
                      enq, deq, rejected, result>>

ActHash ==
    /\ AtAction("HASH")
    /\ \E r \in execute_hash(skbs[Top.skb].data, Top.key) : AfterMutator(Top, r, "HASH")

ActPushMpls ==
    /\ AtAction("PUSH_MPLS")
    /\ \E r \in push_mpls(skbs[Top.skb].data, Top.key, faults) :
          AfterMutator(Top, r, "PUSH_MPLS")

ActPopMpls ==
    /\ AtAction("POP_MPLS")
    /\ \E r \in pop_mpls(skbs[Top.skb].data, Top.key, "IP", faults) :
          AfterMutator(Top, r, "POP_MPLS")

ActPushVlan ==
    /\ AtAction("PUSH_VLAN")
    /\ \E r \in push_vlan(skbs[Top.skb].data, Top.key, Top.acts[Top.i].arg, faults) :
          AfterMutator(Top, r, "PUSH_VLAN")

ActPopVlan ==
    /\ AtAction("POP_VLAN")
    /\ \E r \in pop_vlan(skbs[Top.skb].data, Top.key, faults) :
          AfterMutator(Top, r, "POP_VLAN")

ActSet ==
    /\ \/ AtAction("SET_MARK")
       \/ AtAction("SET_IPV4")
    /\ \E r \in execute_set_action(skbs[Top.skb].data, Top.key, Top.acts[Top.i], faults) :
          AfterMutator(Top, r, "SET")

\* The values prandom_u32() may return to a SAMPLE with threshold prob: any
\* value, except that a draw at or above a non-zero threshold is taken from
\* the budget n.
prandom_u32(prob, n) ==
    {d \in 0..MaxRand : d < prob \/ prob = 0 \/ n > 0}

\* Line 671: output_userspace returns what ovs_dp_upcall returned.
output_userspace(ok) == IF ok THEN "OK" ELSE "ENOTCONN"

\* The value of output_userspace dropped by sample, as line 873 drops it.
sample_fast_path_ignored(err) == "OK"

\* Line 714: sample returns the value of output_userspace.
sample_fast_path(err) == err

\* The test of line 690 with > for >=.
sample_skipped_late(draw, prob) == draw > prob

\* Line 690: the draw is at or above the probability threshold.
sample_skipped(draw, prob) == draw >= prob

\* sample(): the draw, the empty list, the single-USERSPACE fast path, the
\* clone and the deferral (lines 686-728), then lines 918-921 of the caller.
ActSample ==
    /\ AtAction("SAMPLE")
    /\ \E draw \in prandom_u32(Top.acts[Top.i].arg, faults) :
         LET f == [Top EXCEPT !.draw = draw]
             a == f.acts[f.i]
             nested == a.acts
             clone == Len(skbs) + 1
             next == Append(Rest, nla_next(f))
         IN IF sample_skipped(draw, a.arg)
            THEN /\ stack' = next
                 /\ faults' = IF a.arg > 0 THEN faults - 1 ELSE faults
                 /\ UNCHANGED <<skbs, action_fifos, upcalls, enq, rejected, last_run>>
            ELSE IF attrs_len(nested) = 0
            THEN /\ stack' = next
                 /\ UNCHANGED <<skbs, action_fifos, faults, upcalls, enq, rejected,
                                last_run>>
            ELSE IF nested[1].op = "USERSPACE"
                    /\ nla_attr_len(nested[1]) = attrs_len(nested)
            THEN \E ok \in {TRUE} \cup (IF faults > 0 THEN {FALSE} ELSE {}) :
                    /\ upcalls' = Append(upcalls, Upcall("ACTION", f.skb, f.key, ok))
                    /\ faults' = IF ok THEN faults ELSE faults - 1
                    /\ LET err == sample_fast_path(output_userspace(ok))
                       IN IF err = "OK"
                          THEN /\ stack' = next
                               /\ UNCHANGED <<skbs, last_run>>
                          ELSE /\ skbs' = Release(skbs, f.skb, "freed")
                               /\ stack' = Ret(f, err)
                               /\ last_run' = Returned(f, err)
                    /\ UNCHANGED <<action_fifos, enq, rejected>>
            ELSE \/ /\ faults > 0           \* skb_clone returns NULL
                    /\ faults' = faults - 1
                    /\ stack' = next
                    /\ UNCHANGED <<skbs, action_fifos, upcalls, enq, rejected, last_run>>
                 \/ /\ LET accepted == action_fifo_put_slot(action_fifos) >= 0
                           s1 == Append(skbs, NewSkb(skbs[f.skb].data,
                                                     IF accepted THEN "fifo" ELSE "live"))
                       IN /\ action_fifos' = add_deferred_actions(action_fifos, clone,
                                                                  f.key, FALSE, nested)
                          /\ skbs' = IF accepted THEN s1 ELSE Release(s1, clone, "freed")
                          /\ enq' = IF accepted THEN Append(enq, clone) ELSE enq
                          /\ rejected' = IF accepted THEN rejected
                                         ELSE rejected \cup {clone}
                    /\ stack' = next
                    /\ UNCHANGED <<faults, upcalls, last_run>>
    /\ UNCHANGED <<exec_actions_level, flow, packets, calls, deq, result>>

\* ovs_flow_key_update of the flow module: the outcomes [err, key, f].
ovs_flow_key_update(p, key, n) ==
    {[err |-> "OK", key |-> key_extract(p, key), f |-> 0]}
    \cup (IF n > 0 THEN {[err |-> "EINVAL", key |-> key, f |-> 1]} ELSE {})

\* execute_recirc: the outcomes [err, key, skbs, fifo, accepted, rejected, f] for the
\* packet id with the caller's key; last is last_action(a, rem).
execute_recirc(s, fifo, id, key, recirc_id, last, n) ==
    LET updates == IF is_flow_key_valid(key)
                   THEN {[err |-> "OK", key |-> key, f |-> 0]}
                   ELSE ovs_flow_key_update(s[id].data, key, n)
        clone == Len(s) + 1
        Defer(u, s1, skb) ==
            LET accepted == action_fifo_put_slot(fifo) >= 0
                fifo1 == add_deferred_actions(fifo, skb, u.key, TRUE, <<>>)
            IN IF accepted
               THEN [err |-> "OK", key |-> u.key,
                     skbs |-> [s1 EXCEPT ![skb].st = "fifo"],
                     fifo |-> [fifo1 EXCEPT
                                 !.fifo[fifo.head].pkt_key.recirc_id = recirc_id],
                     accepted |-> <<skb>>, rejected |-> {}, f |-> u.f]
               ELSE [err |-> "OK", key |-> u.key,
                     skbs |-> Release(s1, skb, "freed"),
                     fifo |-> fifo1, accepted |-> <<>>, rejected |-> {skb},
                     f |-> u.f]
    IN UNION {
         IF u.err # "OK"
         THEN {[err |-> u.err, key |-> u.key, skbs |-> s, fifo |-> fifo,
                accepted |-> <<>>, rejected |-> {}, f |-> u.f]}
         ELSE IF last
         THEN {Defer(u, s, id)}
         ELSE {Defer(u, Append(s, NewSkb(s[id].data, "live")), clone)}
              \cup (IF n - u.f > 0
                    THEN {[err |-> "OK", key |-> u.key, skbs |-> s, fifo |-> fifo,
                           accepted |-> <<>>, rejected |-> {}, f |-> u.f + 1]}
                    ELSE {})
         : u \in updates}

\* OVS_ACTION_ATTR_RECIRC, lines 898-907, then lines 918-921.
ActRecirc ==
    /\ AtAction("RECIRC")
    /\ LET f == Top
           last == last_action(f)
       IN \E r \in execute_recirc(skbs, action_fifos, f.skb, f.key, f.acts[f.i].arg,
                                  last, faults) :
            LET f2 == [f EXCEPT !.key = r.key]
            IN /\ faults' = faults - r.f
               /\ action_fifos' = r.fifo
               /\ enq' = enq \o r.accepted
               /\ rejected' = rejected \cup r.rejected
               /\ IF last
                  THEN /\ skbs' = r.skbs
                       /\ stack' = Ret(f2, r.err)
                       /\ last_run' = Returned(f2, r.err)
                  ELSE IF r.err # "OK"
                  THEN /\ skbs' = Release(r.skbs, f.skb, "freed")
                       /\ stack' = Ret(f2, r.err)
                       /\ last_run' = Returned(f2, r.err)
                  ELSE /\ skbs' = r.skbs
                       /\ stack' = Append(Rest, nla_next(f2))
                       /\ UNCHANGED last_run
    /\ UNCHANGED <<exec_actions_level, flow, packets, upcalls, calls, deq, result>>

\* Lines 924-929: after the last attribute the packet itself goes to the
\* pending port, or is consumed.
Finish ==
    /\ stack # <<>>
    /\ Top.pc = "loop"
    /\ Top.rem <= 0
    /\ LET f == Top
           port == f.prev_port
       IN IF pending(f)
          THEN LET s2 == do_output(skbs, f.skb, port)
                   f2 == [f EXCEPT !.out = Append(@, OutRec(port, skbs[f.skb].data,
                                                            f.skb, TRUE))]
               IN /\ skbs' = PortSkbs(s2, f.skb, port)
                  /\ stack' = Ret(f2, "OK")
                                \o PortReentry(s2, f.skb, port, Len(skbs) + 1)
                  /\ last_run' = Returned(f2, "OK")
          ELSE /\ skbs' = Release(skbs, f.skb, "consumed")
               /\ stack' = Ret(f, "OK")
               /\ last_run' = Returned(f, "OK")
    /\ UNCHANGED <<exec_actions_level, action_fifos, flow, faults, packets, upcalls,
                   calls, enq, deq, rejected, result>>

\* ------------------------------------------------ process_deferred_actions
\* ovs_dp_process_packet of the datapath module: a flow hit calls
\* ovs_execute_actions, a miss makes an upcall and consumes the packet.
flow_hit(key) == key.recirc_id = RecircFlow

\* Line 978 (!level), line 937 and one turn of the loop of lines 941-951.
ProcessDeferred ==
    /\ stack # <<>>
    /\ Top.fn = "ovs"
    /\ \/ Top.pc = "post" /\ should_drain(Top.lvl)
       \/ Top.pc = "drain"
    /\ ~action_fifo_is_empty(action_fifos)
    /\ LET f == Top
           da == action_fifos.fifo[action_fifo_get_slot(action_fifos)]
           s1 == [skbs EXCEPT ![da.skb].st = "live"]
           f2 == [f EXCEPT !.pc = "drain"]
       IN /\ action_fifos' = action_fifo_get(action_fifos)
          /\ deq' = Append(deq, da.skb)
          /\ IF ~da.recirc
             THEN /\ stack' = Append(Rest, f2)
                                \o <<Frame("da", "drain", da.actions,
                                           nla_len(da.actions[1]), da.skb,
                                           da.pkt_key)>>
                  /\ skbs' = s1
                  /\ UNCHANGED upcalls
             ELSE IF flow_hit(da.pkt_key)
             THEN /\ stack' = Append(Rest, f2)
                                \o <<Frame("ovs", "recirc", flow, attrs_len(flow),
                                           da.skb, da.pkt_key)>>
                  /\ skbs' = s1
                  /\ UNCHANGED upcalls
             ELSE /\ stack' = Append(Rest, f2)
                  /\ skbs' = Release(s1, da.skb, "consumed")
                  /\ upcalls' = Append(upcalls, Upcall("MISS", da.skb, da.pkt_key, TRUE))
    /\ UNCHANGED <<exec_actions_level, flow, faults, packets, calls, enq, rejected,
                   last_run, result>>

\* The rest of ovs_execute_actions: the drain is skipped or over (the FIFO is
\* reset after a drain, line 954), the level is decremented, err is returned.
ExitCall ==
    /\ stack # <<>>
    /\ Top.fn = "ovs"
    /\ \/ /\ Top.pc = "post"
          /\ ~should_drain(Top.lvl) \/ action_fifo_is_empty(action_fifos)
          /\ UNCHANGED action_fifos
       \/ /\ Top.pc = "drain"
          /\ action_fifo_is_empty(action_fifos)
          /\ action_fifos' = action_fifo_init(action_fifos)
    /\ exec_actions_level' = this_cpu_dec(exec_actions_level)
    /\ stack' = Rest
    /\ result' = IF Rest = <<>> THEN Top.err ELSE result
    /\ UNCHANGED <<skbs, flow, faults, packets, upcalls, calls, enq, deq, rejected,
                   last_run>>

Next ==
    \/ Receive
    \/ Enter
    \/ Flush
    \/ ActOutput
    \/ ActUserspace
    \/ ActHash
    \/ ActPushMpls
    \/ ActPopMpls
    \/ ActPushVlan
    \/ ActPopVlan
    \/ ActSet
    \/ ActSample
    \/ ActRecirc
    \/ Finish
    \/ ProcessDeferred
    \/ ExitCall

Spec == Init /\ [][Next]_vars

\* The steps of a call in progress.  The CPU that entered ovs_execute_actions
\* keeps executing it (the executor runs with bottom halves disabled and
\* never blocks), so a step that can be taken is taken.
Run == stack # <<>> /\ Next

LiveSpec == Spec /\ WF_vars(Run)

\* ================================================================= claims
\* The buffers some running activation owns, and those waiting in the FIFO.
Owned == {stack[j].skb : j \in {n \in DOMAIN stack : stack[n].pc \in {"enter", "loop"}}}
Queued ==
    {action_fifos.fifo[t].skb : t \in action_fifos.tail..(action_fifos.head - 1)}
Idle == stack = <<>>

\* C1: execute_actions disposes of its packet exactly once on every path: no
\* buffer is released twice, every buffer not yet released is owned by a
\* running activation or waits in the FIFO, and nothing is left when the
\* outermost call has returned.
C1_DisposedExactlyOnce ==
    /\ \A id \in DOMAIN skbs :
          /\ skbs[id].rel <= 1
          /\ skbs[id].st = "live" => id \in Owned
          /\ skbs[id].st = "fifo" => id \in Queued
          /\ skbs[id].st \in {"sent", "freed", "consumed"} => skbs[id].rel = 1
    /\ Idle => \A id \in DOMAIN skbs : skbs[id].st \notin {"live", "fifo"}

\* The activations to which the per-activation claims apply: the running ones
\* and the one that returned last.
Activations == {stack[j] : j \in DOMAIN stack} \cup {last_run}

\* C2 (as stated): from depth 0 a self-recirculating flow re-enters four times
\* and the next entry is rejected by the loop-depth guard: counting the
\* entries with or without the top-level one, a call that returns Loop has
\* been made by the sixth call of the chain.
SelfRecirc == flow = <<Recirc(RecircFlow)>>

C2_LoopGuardCutsRecircChain ==
    (SelfRecirc /\ Len(calls) >= EXEC_ACTIONS_LEVEL_LIMIT + 2)
        => \E j \in 1..(EXEC_ACTIONS_LEVEL_LIMIT + 2) : calls[j].loop

\* C2 (amended): a re-dispatch made by the drain always enters at level 1 and
\* is never rejected by the loop-depth guard; it is the FIFO that cuts the
\* chain: at most 9 re-dispatches per outermost call, and for the
\* self-recirculating flow exactly 9, the 10th deferral being refused and its
\* packet freed.
Redispatches == {j \in DOMAIN calls : calls[j].via = "recirc"}

C2_FifoCutsRecircChain ==
    /\ \A j \in Redispatches : calls[j].lvl = 1 /\ ~calls[j].loop
    /\ Cardinality(Redispatches) <= DEFERRED_ACTION_FIFO_SIZE - 1
    /\ (SelfRecirc /\ Idle /\ packets > 0) =>
          /\ Cardinality(Redispatches) = DEFERRED_ACTION_FIFO_SIZE - 1
          /\ Len(calls) = DEFERRED_ACTION_FIFO_SIZE
          /\ Cardinality(rejected) = 1
          /\ \A id \in rejected : skbs[id].st = "freed"
          /\ result = "OK"

C2_Witness ==
    /\ SelfRecirc
    /\ Idle
    /\ Cardinality(Redispatches) = DEFERRED_ACTION_FIFO_SIZE - 1
    /\ rejected # {}

\* C3: entered at level >= 4, execute_actions frees the packet and returns
\* Loop, runs nothing of the list, makes no output or upcall, leaves the level
\* and the FIFO alone; entered below 4 it is never rejected.
C3_LoopGuard ==
    [][(stack # <<>> /\ Top.pc = "enter") =>
          IF exec_actions_level >= EXEC_ACTIONS_LEVEL_LIMIT
          THEN /\ stack' = Rest
               /\ skbs' = Release(skbs, Top.skb, "freed")
               /\ skbs[Top.skb].st = "live"
               /\ calls'[Len(calls')].loop
               /\ Rest = <<>> => result' = "ELOOP"
               /\ UNCHANGED <<exec_actions_level, action_fifos, upcalls, enq, deq,
                              rejected, last_run>>
          ELSE /\ Len(stack') = Len(stack)
               /\ stack'[Len(stack')].pc = "loop"
               /\ ~calls'[Len(calls')].loop
               /\ exec_actions_level' = exec_actions_level + 1
               /\ skbs' = skbs]_vars

C3_Witness ==
    \E j \in DOMAIN calls :
        /\ calls[j].lvl = EXEC_ACTIONS_LEVEL_LIMIT
        /\ calls[j].loop
        /\ exec_actions_level = EXEC_ACTIONS_LEVEL_LIMIT

\* C4: the FIFO accepts at most 9 items; a put that finds 9 accepted items is
\* refused, writes nothing, and the packet it was for is freed exactly once
\* and neither owned by anyone nor queued afterwards.
C4_FifoBound ==
    /\ [](/\ action_fifos.head <= DEFERRED_ACTION_FIFO_SIZE - 1
          /\ Len(enq) <= DEFERRED_ACTION_FIFO_SIZE - 1
          /\ rejected # {} => Len(enq) = DEFERRED_ACTION_FIFO_SIZE - 1
          /\ \A id \in rejected :
                /\ skbs[id].st = "freed"
                /\ skbs[id].rel = 1
                /\ id \notin Owned \cup Queued)
    /\ [][action_fifos.head = DEFERRED_ACTION_FIFO_SIZE - 1 =>
             /\ action_fifos'.fifo = action_fifos.fifo
             /\ action_fifos'.head \in {action_fifos.head, 0}
             /\ enq' = enq \/ Idle]_vars

\* A sample clone and a recirculated packet have both been accepted and a
\* tenth deferral has been refused.
C4_Witness ==
    /\ rejected # {}
    /\ Len(enq) = DEFERRED_ACTION_FIFO_SIZE - 1
    /\ \E t \in 0..(action_fifos.head - 1) : action_fifos.fifo[t].recirc
    /\ \E t \in 0..(action_fifos.head - 1) : ~action_fifos.fifo[t].recirc

\* C5: whenever the outermost call has returned, with success or an error,
\* head = tail = 0 and every accepted item has been taken by the drain.
C5_FifoResetAtReturn ==
    Idle => /\ action_fifos.head = 0
            /\ action_fifos.tail = 0
            /\ deq = enq

C5_Witness ==
    /\ Idle
    /\ packets = 2
    /\ deq # <<>>
    /\ result # "OK"

\* C6: the outputs the staged executor has made are the OUTPUTs reached, in
\* order and with the contents the packet had when each was reached, less the
\* ones whose clone failed and less the one still staged.
Sent(f) == [j \in DOMAIN f.out |-> [port |-> f.out[j].port, data |-> f.out[j].data]]

NotLost(r) == ~r.lost

Reference(f) ==
    LET kept == SelectSeq(f.ref, NotLost)
    IN [j \in DOMAIN kept |-> [port |-> kept[j].port, data |-> kept[j].data]]

Staged(f) == f.pc = "loop" /\ f.prev_port # NoPort

C6_StagedEqualsReference ==
    \A f \in Activations :
        IF Staged(f)
        THEN /\ Sent(f) = SubSeq(Reference(f), 1, Len(Reference(f)) - 1)
             /\ f.ref[Len(f.ref)] = [port |-> f.prev_port, data |-> skbs[f.skb].data,
                                     lost |-> FALSE]
        ELSE Sent(f) = Reference(f)

\* Two outputs with different contents, the first made before a mutation.
C6_Witness ==
    /\ last_run.pc = "post"
    /\ Len(last_run.out) = 2
    /\ last_run.out[1].data # last_run.out[2].data
    /\ last_run.out[1].port = last_run.out[2].port

\* C7 (as stated): a list with an OUTPUT that runs to completion emits its
\* last OUTPUT with the original packet.
\* The attributes the loop of do_execute_actions visits when given (attr, len):
\* those that start before len bytes.
Given(f) ==
    SubSeq(f.acts, 1,
           Cardinality({j \in DOMAIN f.acts :
                           attrs_len(SubSeq(f.acts, 1, j - 1)) < f.len}))

HasOutput(acts) == \E j \in DOMAIN acts : acts[j].op = "OUTPUT"

Completed(f) == f.pc \in {"post", "drain"} /\ f.err = "OK" /\ f.rem <= 0

EndsWithOutput(acts) == acts # <<>> /\ acts[Len(acts)].op = "OUTPUT"

Outermost ==
    /\ Len(stack) = 1
    /\ stack[1].fn = "ovs"
    /\ stack[1].lvl = 0
    /\ stack[1].pc \in {"post", "drain"}

C8_OnlyOutermostDrains ==
    [][/\ (action_fifos'.tail # action_fifos.tail \/ Len(deq') > Len(deq)) => Outermost
       /\ (stack # <<>> /\ Top.pc \in {"post", "drain"} /\ ~Outermost)
             => action_fifos' = action_fifos]_vars

\* The drain of the outermost call takes an item that a nested call, made
\* through the internal port, left in the FIFO.
C8_Witness ==
    /\ Outermost
    /\ deq # <<>>
    /\ \E j \in DOMAIN calls : calls[j].via = "port" /\ ~calls[j].loop
    /\ Len(enq) > Len(flow)

\* C9: the drain takes the items in the order the FIFO accepted them, items
\* accepted during the drain included, and at the end none is left.
C9_DrainInFifoOrder ==
    /\ Len(deq) <= Len(enq)
    /\ deq = SubSeq(enq, 1, Len(deq))
    /\ ~Idle => Len(deq) = action_fifos.tail /\ Len(enq) = action_fifos.head
    /\ Idle => deq = enq

\* One call, a one-action list, and yet two items drained: the second was
\* accepted while the first was being executed by the drain.
C9_Witness ==
    /\ Idle
    /\ Len(flow) = 1
    /\ Len(calls) = 1
    /\ Len(deq) = 2

\* C10: no upcall of a USERSPACE action and no deferred item (RECIRC or SAMPLE
\* key snapshot) carries a key that is still invalidated.
C10_KeyCoherent ==
    /\ \A j \in DOMAIN upcalls : upcalls[j].cmd = "ACTION" => upcalls[j].valid
    /\ \A t \in 0..(action_fifos.head - 1) : action_fifos.fifo[t].pkt_key.valid

\* --------------------------------------------------------------------- C11
\* The opcodes of the header mutators, and the activations that have returned
\* an error.
MutatorOps == {"PUSH_MPLS", "POP_MPLS", "POP_VLAN", "PUSH_VLAN", "SET_MARK", "SET_IPV4"}

Failed(f) == f.pc \in {"post", "drain"} /\ f.err # "OK"

FailedAtMutator(f) ==
    /\ Failed(f)
    /\ f.i <= Len(f.acts)
    /\ f.acts[f.i].op \in MutatorOps

OutputsBefore(f) == Cardinality({j \in 1..(f.i - 1) : f.acts[j].op = "OUTPUT"})

\* C11: when a header mutator fails, the packet has been freed exactly once
\* (by the executor, or by push_vlan itself and then not again), the error of
\* the mutator is what the activation returns and, for the outermost call,
\* what execute_actions returns; the failing step makes no output, upcall,
\* clone or deferral, and nothing of the list after the mutator has run.
C11_MutatorErrorStops ==
    /\ [](\A f \in Activations :
            FailedAtMutator(f) =>
               /\ skbs[f.skb].st = "freed"
               /\ skbs[f.skb].rel = 1
               /\ f.err = "ENOMEM"
               /\ ~pending(f)
               /\ Len(f.ref) = OutputsBefore(f)
               /\ Len(f.out) <= OutputsBefore(f))
    /\ [][(FailedAtMutator(last_run') /\ last_run' # last_run) =>
             /\ stack # <<>>
             /\ Top.pc = "loop"
             /\ skbs[Top.skb].st = "live"
             /\ last_run' = Returned([Top EXCEPT !.key = last_run'.key], "ENOMEM")
             /\ Len(skbs') = Len(skbs)
             /\ \A id \in DOMAIN skbs : id # Top.skb => skbs'[id] = skbs[id]
             /\ UNCHANGED <<upcalls, action_fifos, enq, deq, rejected,
                            exec_actions_level>>]_vars
    /\ [][(Len(stack) = 1 /\ stack' = <<>> /\ FailedAtMutator(stack[1]))
             => result' = stack[1].err]_vars

\* A mutator failed with an output or an upcall still to come in the list,
\* and the outermost call has returned the error.
C11_Witness ==
    /\ Idle
    /\ FailedAtMutator(last_run)
    /\ last_run.i < Len(last_run.acts)
    /\ last_run.acts[last_run.i + 1].op \in {"OUTPUT", "USERSPACE"}
    /\ result = "ENOMEM"
    /\ upcalls = <<>>

\* --------------------------------------------------------------------- C12
\* The top activation is at a SAMPLE that is not the single-USERSPACE fast
\* path, or at a RECIRC whose key needs no re-extraction: only a clone failure
\* or a full FIFO can go wrong there.
LocalDropsOnly ==
    \/ /\ AtAction("SAMPLE")
       /\ ~(/\ Top.acts[Top.i].acts # <<>>
            /\ Top.acts[Top.i].acts[1].op = "USERSPACE"
            /\ Len(Top.acts[Top.i].acts) = 1)
    \/ /\ AtAction("RECIRC")
       /\ is_flow_key_valid(Top.key)

\* The outermost call has got the value of its own action list.
OutermostReturned == stack # <<>> /\ stack[1].pc \in {"post", "drain"}

\* C12: a SAMPLE or RECIRC that can only fail locally returns success and the
\* list goes on with the next action (a last RECIRC returns success); once
\* the outermost action list has returned, nothing that happens in the drain
\* changes the value the call returns, and the drain goes on to the last item.
C12_ResultIgnoresDeferred ==
    /\ [][LocalDropsOnly =>
             IF AtAction("RECIRC") /\ last_action(Top)
             THEN last_run' = Returned(Top, "OK")
             ELSE /\ Len(stack') >= Len(stack)
                  /\ stack'[Len(stack)] =
                        nla_next([Top EXCEPT !.draw = stack'[Len(stack)].draw])
                  /\ skbs'[Top.skb] = skbs[Top.skb]]_vars
    /\ [][OutermostReturned =>
             IF stack' = <<>>
             THEN result' = stack[1].err /\ deq' = enq' /\ Len(stack) = 1
             ELSE stack'[1].err = stack[1].err]_vars

\* During the drain a re-dispatched flow has failed, the value of the
\* outermost list is untouched and the drain has started on the next item.
C12_Witness ==
    /\ Len(stack) = 2
    /\ stack[1].pc = "drain"
    /\ stack[1].err = "OK"
    /\ stack[2].pc = "enter"
    /\ stack[2].via = "recirc"
    /\ Failed(last_run)
    /\ last_run.via = "recirc"
    /\ rejected = {}

\* =========================================================== set-field actions
\* The setters of the L3/L4 headers and their checksum upkeep, on a packet
\* seen as its 16-bit words.  h is the packet: l3 and proto say what the
\* headers are, ip_summed is the checksum mode and csum the aggregate checksum
\* skb->csum; saddr and daddr stand for the address words (32 bits for both
\* IPv4 and IPv6), rest for the sum of all the words no setter touches.
MaxSets == 2         \* set actions applied to one packet

CSUM_MANGLED_0 == 65535

\* One's-complement arithmetic on 16-bit words (end-around carry).
csum_add(a, b) == IF a + b > CSUM_MANGLED_0 THEN a + b - CSUM_MANGLED_0 ELSE a + b

csum_not(a) == CSUM_MANGLED_0 - a

csum_fold32(x) == csum_add(x \div (CSUM_MANGLED_0 + 1), x % (CSUM_MANGLED_0 + 1))

\* sum with the words `from' replaced by `to': ~(~sum + ~from + to).
csum_replace(sum, from, to) ==
    csum_not(csum_add(csum_add(csum_not(sum), csum_not(csum_fold32(from))),
                      csum_fold32(to)))

\* inet_proto_csum_replace4 / 2 / 16 on the checksum field check of packet h:
\* [check, csum] afterwards.  fix_csum: the aggregate is corrected too.
inet_proto_csum_replace(h, check, from, to, pseudohdr, fix_csum) ==
    IF h.ip_summed # "PARTIAL"
    THEN [check |-> csum_replace(check, from, to),
          csum |-> IF h.ip_summed = "COMPLETE" /\ pseudohdr /\ fix_csum
                   THEN csum_replace(h.csum, from, to) ELSE h.csum]
    ELSE [check |-> IF pseudohdr
                    THEN csum_add(csum_add(check, csum_not(csum_fold32(from))),
                                  csum_fold32(to))
                    ELSE check,
          csum |-> h.csum]

\* The one's-complement sum of the words of the packet.
WordSum(h) ==
    LET l3 == IF h.l3 = "IP4"
              THEN csum_add(csum_add(h.tos, h.ttl * 256), h.ipcheck)
              ELSE csum_add(csum_add(6 * 4096 + h.tclass * 16 + h.label \div 65536,
                                     h.label % 65536),
                            h.hlimit)
        addrs == csum_add(csum_fold32(h.saddr), csum_fold32(h.daddr))
        l4 == csum_add(csum_add(h.sport, h.dport), csum_fold32(h.check))
    IN csum_add(csum_add(csum_add(l3, addrs), l4), h.rest)

\* Two checksums are the same number (0 and 0xFFFF are both zero).
SameSum(a, b) == a % CSUM_MANGLED_0 = b % CSUM_MANGLED_0

\* set_ip_addr: addr is "saddr" or "daddr".
set_ip_addr(h, addr, new_addr) ==
    LET r == inet_proto_csum_replace(h, h.check, h[addr], new_addr, TRUE, TRUE)
        h1 == IF h.proto = "TCP" /\ h.l4_ok
              THEN [h EXCEPT !.check = r.check, !.csum = r.csum]
              ELSE IF h.proto = "UDP" /\ h.l4_ok
                      /\ (h.check # 0 \/ h.ip_summed = "PARTIAL")
              THEN [h EXCEPT !.check = IF r.check = 0 THEN CSUM_MANGLED_0
                                       ELSE r.check,
                             !.csum = r.csum]
              ELSE h
    IN [h1 EXCEPT !.ipcheck = csum_replace(@, h[addr], new_addr),
                  ![addr] = new_addr]

\* set_ip_ttl: the ttl is the upper byte of its word.
set_ip_ttl(h, new_ttl) ==
    [h EXCEPT !.ipcheck = csum_replace(@, h.ttl * 256, new_ttl * 256),
              !.ttl = new_ttl]

\* set_ipv4 past make_writable, with ipv4_change_dsfield for the tos.
set_ipv4_fields(h, ipv4_key) ==
    LET h1 == IF ipv4_key.src # h.saddr
              THEN [set_ip_addr(h, "saddr", ipv4_key.src) EXCEPT
                       !.key.src = ipv4_key.src]
              ELSE h
        h2 == IF ipv4_key.dst # h1.daddr
              THEN [set_ip_addr(h1, "daddr", ipv4_key.dst) EXCEPT
                       !.key.dst = ipv4_key.dst]
              ELSE h1
        h3 == IF ipv4_key.tos # h2.tos
              THEN [h2 EXCEPT !.ipcheck = csum_replace(@, h2.tos, ipv4_key.tos),
                              !.tos = ipv4_key.tos, !.key.tos = ipv4_key.tos]
              ELSE h2
    IN IF ipv4_key.ttl # h3.ttl
       THEN [set_ip_ttl(h3, ipv4_key.ttl) EXCEPT !.key.ttl = ipv4_key.ttl]
       ELSE h3

\* update_ipv6_checksum and set_ipv6_addr.
update_ipv6_checksum(h, addr, new_addr, fix_csum) ==
    LET r == inet_proto_csum_replace(h, h.check, h[addr], new_addr, TRUE, fix_csum)
    IN IF h.proto \in {"TCP", "ICMP6"} /\ h.l4_ok
       THEN [h EXCEPT !.check = r.check, !.csum = r.csum]
       ELSE IF h.proto = "UDP" /\ h.l4_ok
               /\ (h.check # 0 \/ h.ip_summed = "PARTIAL")
       THEN [h EXCEPT !.check = IF r.check = 0 THEN CSUM_MANGLED_0 ELSE r.check,
                      !.csum = r.csum]
       ELSE h

set_ipv6_addr(h, addr, new_addr, recalculate_csum, fix_csum) ==
    [(IF recalculate_csum THEN update_ipv6_checksum(h, addr, new_addr, fix_csum)
      ELSE h) EXCEPT ![addr] = new_addr]

\* set_ipv6 past make_writable: the addresses when they differ, then traffic
\* class, flow label and hop limit always.  h.rh: a routing header is present.
set_ipv6_fields(h, ipv6_key, fix_csum) ==
    LET h1 == IF ipv6_key.src # h.saddr
              THEN [set_ipv6_addr(h, "saddr", ipv6_key.src, TRUE, fix_csum) EXCEPT
                       !.key.src = ipv6_key.src]
              ELSE h
        h2 == IF ipv6_key.dst # h1.daddr
              THEN [set_ipv6_addr(h1, "daddr", ipv6_key.dst, ~h1.rh, fix_csum) EXCEPT
                       !.key.dst = ipv6_key.dst]
              ELSE h1
    IN [h2 EXCEPT !.tclass = ipv6_key.tclass, !.key.tos = ipv6_key.tclass,
                  !.label = ipv6_key.label, !.key.label = ipv6_key.label,
                  !.hlimit = ipv6_key.hlimit, !.key.ttl = ipv6_key.hlimit]

\* set_tp_port: port is "sport" or "dport".
set_tp_port(h, port, new_port) ==
    LET r == inet_proto_csum_replace(h, h.check, h[port], new_port, FALSE, TRUE)
    IN [h EXCEPT !.check = r.check, !.csum = r.csum, ![port] = new_port]

\* The fixup of lines 524-525 left out.
set_udp_port_unmangled(h, port, new_port) ==
    IF h.check # 0 /\ h.ip_summed # "PARTIAL"
    THEN set_tp_port(h, port, new_port)
    ELSE [h EXCEPT ![port] = new_port]

set_udp_port(h, port, new_port) ==
    IF h.check # 0 /\ h.ip_summed # "PARTIAL"
    THEN LET h1 == set_tp_port(h, port, new_port)
         IN IF h1.check = 0 THEN [h1 EXCEPT !.check = CSUM_MANGLED_0] ELSE h1
    ELSE [h EXCEPT ![port] = new_port]

\* set_udp and set_tcp past make_writable.
set_udp_fields(h, udp_port_key) ==
    LET h1 == IF udp_port_key.src # h.sport
              THEN [set_udp_port(h, "sport", udp_port_key.src) EXCEPT
                       !.key.tp_src = udp_port_key.src]
              ELSE h
    IN IF udp_port_key.dst # h1.dport
       THEN [set_udp_port(h1, "dport", udp_port_key.dst) EXCEPT
                !.key.tp_dst = udp_port_key.dst]
       ELSE h1

set_tcp_fields(h, tcp_port_key) ==
    LET h1 == IF tcp_port_key.src # h.sport
              THEN [set_tp_port(h, "sport", tcp_port_key.src) EXCEPT
                       !.key.tp_src = tcp_port_key.src]
              ELSE h
    IN IF tcp_port_key.dst # h1.dport
       THEN [set_tp_port(h1, "dport", tcp_port_key.dst) EXCEPT
                !.key.tp_dst = tcp_port_key.dst]
       ELSE h1

\* Bitwise exclusive or.
RECURSIVE Xor(_, _)
Xor(a, b) ==
    IF a = 0 THEN b
    ELSE IF b = 0 THEN a
    ELSE ((a + b) % 2) + 2 * Xor(a \div 2, b \div 2)

\* sctp_compute_cksum: a checksum of the SCTP packet (ports and the rest),
\* taken with the checksum field skipped.
sctp_compute_cksum(h) == (h.sport * 7 + h.dport * 13 + h.rest * 3 + 5) % 16

\* The new checksum stored as it is.
set_sctp_fields_recomputed(h, sctp_port_key) ==
    IF sctp_port_key.src # h.sport \/ sctp_port_key.dst # h.dport
    THEN LET h1 == [h EXCEPT !.sport = sctp_port_key.src, !.dport = sctp_port_key.dst]
         IN [h1 EXCEPT !.check = sctp_compute_cksum(h1),
                       !.key.tp_src = sctp_port_key.src,
                       !.key.tp_dst = sctp_port_key.dst]
    ELSE h

\* set_sctp past make_writable.
set_sctp_fields(h, sctp_port_key) ==
    IF sctp_port_key.src # h.sport \/ sctp_port_key.dst # h.dport
    THEN LET old_csum == h.check
             old_correct_csum == sctp_compute_cksum(h)
             h1 == [h EXCEPT !.sport = sctp_port_key.src, !.dport = sctp_port_key.dst]
             new_csum == sctp_compute_cksum(h1)
         IN [h1 EXCEPT !.check = Xor(Xor(old_csum, old_correct_csum), new_csum),
                       !.key.tp_src = sctp_port_key.src,
                       !.key.tp_dst = sctp_port_key.dst]
    ELSE h

\* ------------------------------------------------ packets and set arguments
AddrVals == {1, 2, 3, 65538}
PortVals == {5, 7}
CheckVals == {0, 9, 65533}

HdrKey(h) ==
    [src |-> h.saddr, dst |-> h.daddr,
     tos |-> IF h.l3 = "IP4" THEN h.tos ELSE h.tclass,
     ttl |-> IF h.l3 = "IP4" THEN h.ttl ELSE h.hlimit,
     label |-> h.label, tp_src |-> h.sport, tp_dst |-> h.dport]

\* The packets the setters are applied to; in mode complete the aggregate
\* checksum of an arriving packet is the sum of its words.
HdrPackets ==
    {LET h == [l3 |-> l3, proto |-> proto, ip_summed |-> mode, l4_ok |-> ok,
               rh |-> rh, saddr |-> 1, daddr |-> 2, tos |-> 0, ttl |-> 64,
               ipcheck |-> 11, tclass |-> 0, label |-> 0, hlimit |-> 64,
               sport |-> 7, dport |-> 7, check |-> check, rest |-> 21,
               csum |-> 0, key |-> ZeroKey]
     IN [h EXCEPT !.csum = IF mode = "COMPLETE" THEN WordSum(h) ELSE 0,
                  !.key = HdrKey(h)]
     : l3 \in {"IP4", "IP6"}, proto \in {"TCP", "UDP", "SCTP", "ICMP6"},
       mode \in {"COMPLETE", "PARTIAL", "NONE"}, ok \in BOOLEAN,
       rh \in BOOLEAN, check \in CheckVals}

Ipv4Keys ==
    [src : {1, 65538}, dst : {2, 3}, tos : {0, 4}, ttl : {64, 1}]

Ipv6Keys ==
    [src : {1, 65538}, dst : {2, 3}, tclass : {0, 3}, label : {0, 65537},
     hlimit : {64, 1}]

PortKeys == [src : PortVals, dst : PortVals]

\* --------------------------------------------- the setters applied in turn
\* The packet is skbs[1]; calls logs the setters applied, each with its
\* argument and the packet it found.  A setter whose make_writable fails changes nothing and the
\* executor frees the packet (lines 918-921).
Hdr == skbs[1].data

CanSet(l3s, protos) ==
    /\ skbs[1].st = "live"
    /\ Len(calls) < MaxSets
    /\ Hdr.l3 \in l3s
    /\ Hdr.proto \in protos

Applied(op, arg, h1) ==
    /\ \E e \in make_writable(faults) :
          IF e = "OK"
          THEN /\ skbs' = [skbs EXCEPT ![1].data = h1]
               /\ calls' = Append(calls, [op |-> op, arg |-> arg, old |-> Hdr,
                                          err |-> "OK"])
               /\ UNCHANGED faults
          ELSE /\ skbs' = Release(skbs, 1, "freed")
               /\ calls' = Append(calls, [op |-> op, arg |-> arg, old |-> Hdr,
                                          err |-> e])
               /\ faults' = faults - 1
    /\ UNCHANGED <<exec_actions_level, action_fifos, stack, flow, packets, upcalls,
                   enq, deq, rejected, last_run, result>>

SetIpv4Hdr ==
    /\ CanSet({"IP4"}, {"TCP", "UDP", "SCTP"})
    /\ \E k \in Ipv4Keys : Applied("set_ipv4", k, set_ipv4_fields(Hdr, k))

\* inet_proto_csum_replace16 corrects the aggregate checksum or not,
\* depending on the kernel the module is built for.
SetIpv6Hdr ==
    /\ CanSet({"IP6"}, {"TCP", "UDP", "SCTP", "ICMP6"})
    /\ \E k \in Ipv6Keys, fix_csum \in BOOLEAN :
          Applied("set_ipv6", k, set_ipv6_fields(Hdr, k, fix_csum))

SetTcpHdr ==
    /\ CanSet({"IP4", "IP6"}, {"TCP"})
    /\ Hdr.l4_ok
    /\ \E k \in PortKeys : Applied("set_tcp", k, set_tcp_fields(Hdr, k))

SetUdpHdr ==
    /\ CanSet({"IP4", "IP6"}, {"UDP"})
    /\ Hdr.l4_ok
    /\ \E k \in PortKeys : Applied("set_udp", k, set_udp_fields(Hdr, k))

SetSctpHdr ==
    /\ CanSet({"IP4", "IP6"}, {"SCTP"})
    /\ Hdr.l4_ok
    /\ \E k \in PortKeys : Applied("set_sctp", k, set_sctp_fields(Hdr, k))

InitSet ==
    /\ exec_actions_level = 0
    /\ action_fifos = [head |-> 0, tail |-> 0,
                       fifo |-> [i \in 0..(DEFERRED_ACTION_FIFO_SIZE - 1) |-> NoItem]]
    /\ stack = <<>>
    /\ \E h \in HdrPackets : skbs = <<NewSkb(h, "live")>>
    /\ flow = <<>>
    /\ faults = MaxFaults
    /\ packets = 1
    /\ upcalls = <<>>
    /\ calls = <<>>
    /\ enq = <<>>
    /\ deq = <<>>
    /\ rejected = {}
    /\ last_run = NoFrame
    /\ result = "NONE"

NextSet ==
    \/ SetIpv4Hdr
    \/ SetIpv6Hdr
    \/ SetTcpHdr
    \/ SetUdpHdr
    \/ SetSctpHdr

SpecSet == InitSet /\ [][NextSet]_vars

\* --------------------------------------------------------------------- C13
\* C13: in mode complete, after any sequence of set_ipv4, set_tcp, set_udp
\* and set_ipv6 the aggregate checksum is the checksum of the words of the
\* packet.
SumSetters == {"set_ipv4", "set_ipv6", "set_tcp", "set_udp"}

C13_AggregateChecksumTracksPacket ==
    (/\ Hdr.ip_summed = "COMPLETE"
     /\ skbs[1].st = "live"
     /\ \A j \in DOMAIN calls : calls[j].op \in SumSetters)
        => SameSum(Hdr.csum, WordSum(Hdr))

\* --------------------------------------------------------------------- C14
\* The setters that succeeded, and the packet each one left.
Done(op) == {j \in DOMAIN calls : calls[j].op = op /\ calls[j].err = "OK"}

After(j) == IF j = Len(calls) THEN Hdr ELSE calls[j + 1].old

\* The UDP checksum field corrected for a port going from old to new, before
\* and after the zero fixup.
PortCorrection(check, old, new) == IF new # old THEN csum_replace(check, old, new) ELSE check

Mangled(check) == IF check = 0 THEN CSUM_MANGLED_0 ELSE check

\* C14: for a UDP packet not in mode partial, set_udp writes both ports; a
\* zero checksum field stays zero, a non-zero one stays non-zero: it is the
\* incrementally corrected value, with 0xFFFF stored where the correction
\* computes to zero.
C14_UdpZeroChecksumPreserved ==
    \A j \in Done("set_udp") :
        LET old == calls[j].old
            new == After(j)
            c1 == Mangled(PortCorrection(old.check, old.sport, calls[j].arg.src))
            c2 == Mangled(PortCorrection(c1, old.dport, calls[j].arg.dst))
        IN old.ip_summed # "PARTIAL" =>
              /\ new.sport = calls[j].arg.src
              /\ new.dport = calls[j].arg.dst
              /\ (old.check = 0) <=> (new.check = 0)
              /\ old.check # 0 => new.check = c2

\* The correction of a non-zero checksum field computed to zero and 0xFFFF
\* was stored.
C14_Witness ==
    \E j \in Done("set_udp") :
        /\ calls[j].old.ip_summed = "COMPLETE"
        /\ calls[j].old.check \notin {0, CSUM_MANGLED_0}
        /\ calls[j].arg.src # calls[j].old.sport
        /\ PortCorrection(calls[j].old.check, calls[j].old.sport, calls[j].arg.src) = 0
        /\ After(j).check = CSUM_MANGLED_0

\* --------------------------------------------------------------------- C15
\* The error of the stored SCTP checksum: stored XOR correct.
SctpError(h) == Xor(h.check, sctp_compute_cksum(h))

\* C15: set_sctp with a port that changes writes both ports and leaves the
\* error of the stored checksum as it was (a correct checksum stays correct,
\* a corrupt one corrupt); with no port changed the packet is left alone.
C15_SctpErrorCarriedThrough ==
    \A j \in Done("set_sctp") :
        LET old == calls[j].old
            new == After(j)
        IN IF calls[j].arg.src # old.sport \/ calls[j].arg.dst # old.dport
           THEN /\ new.sport = calls[j].arg.src
                /\ new.dport = calls[j].arg.dst
                /\ SctpError(new) = SctpError(old)
                /\ (new.check = sctp_compute_cksum(new))
                      <=> (old.check = sctp_compute_cksum(old))
           ELSE new.check = old.check /\ new = old

\* A corrupt checksum went through a port change whose correct checksum is
\* another one, and is still corrupt by the same error.
C15_Witness ==
    \E j \in Done("set_sctp") :
        /\ SctpError(calls[j].old) # 0
        /\ calls[j].arg.src # calls[j].old.sport
        /\ sctp_compute_cksum(After(j)) # sctp_compute_cksum(calls[j].old)
        /\ After(j).check # calls[j].old.check
        /\ SctpError(After(j)) = SctpError(calls[j].old)

\* --------------------------------------------------------------------- C16
\* C16: a SAMPLE whose draw is at or above its threshold does nothing: the
\* activation goes on with the next action, and no buffer, FIFO slot, upcall
\* or key changes.  With threshold 0 every draw is one: the list
\* [SAMPLE{prob=0, actions=[USERSPACE]}] makes no upcall and no output and
\* consumes the packet.
C16_SampleSkipHasNoEffect ==
    /\ [][(/\ AtAction("SAMPLE")
           /\ Len(stack') >= Len(stack)
           /\ stack'[Len(stack)].draw >= Top.acts[Top.i].arg) =>
             /\ stack' = Append(Rest, nla_next([Top EXCEPT
                                                  !.draw = stack'[Len(stack)].draw]))
             /\ UNCHANGED <<skbs, action_fifos, upcalls, enq, deq, rejected,
                            last_run, exec_actions_level, result, calls>>]_vars
    /\ []((flow = <<Sample(0, <<Userspace>>)>> /\ Idle /\ packets > 0) =>
             /\ upcalls = <<>>
             /\ last_run.out = <<>>
             /\ result = "OK"
             /\ Len(skbs) = 1
             /\ skbs[1].st = "consumed"
             /\ skbs[1].rel = 1)

\* A SAMPLE with a non-zero threshold was skipped by its draw and the OUTPUT
\* after it was made with the packet itself.
C16_Witness ==
    /\ Completed(last_run)
    /\ Len(last_run.acts) = 2
    /\ last_run.acts[1].op = "SAMPLE"
    /\ last_run.acts[1].arg > 0
    /\ last_run.acts[1].acts # <<>>
    /\ last_run.draw >= last_run.acts[1].arg
    /\ last_run.acts[2].op = "OUTPUT"
    /\ Len(last_run.out) = 1
    /\ last_run.out[1].skb = last_run.skb
    /\ upcalls = <<>>
    /\ Len(skbs) = 1

\* --------------------------------------------------------------------- C17
\* The ovs_execute_actions calls that have passed the level check and not yet
\* returned, as positions of the call stack.
Executing == {j \in DOMAIN stack : stack[j].fn = "ovs" /\ stack[j].pc # "enter"}

\* C17: the level is between 0 and 4 in every state and 0 when no call is
\* active; it counts the calls that are executing, each of which entered at
\* the number of calls executing below it; a call that returns, with or
\* without error, leaves the level at its value at entry, and a call refused
\* with Loop leaves it untouched.
C17_LevelInvariant ==
    /\ [](/\ exec_actions_level \in 0..EXEC_ACTIONS_LEVEL_LIMIT
          /\ Idle => exec_actions_level = 0
          /\ exec_actions_level = Cardinality(Executing)
          /\ \A j \in Executing :
                stack[j].lvl = Cardinality({i \in Executing : i < j}))
    /\ [][(stack # <<>> /\ Top.fn = "ovs" /\ Len(stack') < Len(stack)) =>
             exec_actions_level' =
                IF Top.pc = "enter" THEN exec_actions_level ELSE Top.lvl]_vars

\* Calls entered at every level from 0 to 3 have returned, one of them with
\* an error, one more was refused at level 4, and the level is back at 0.
C17_Witness ==
    /\ Idle
    /\ exec_actions_level = 0
    /\ result # "OK"
    /\ \A l \in 0..EXEC_ACTIONS_LEVEL_LIMIT : \E j \in DOMAIN calls : calls[j].lvl = l

\* --------------------------------------------------------------------- C18
\* The slots of the items waiting in the FIFO.
QueuedSlots == action_fifos.tail..(action_fifos.head - 1)

\* What a RECIRC step of the activation f that deferred an item did, last
\* telling whether the RECIRC counts as the last action.
RecircForked(f, last) ==
    LET da == action_fifos'.fifo[action_fifos.head]
        clone == Len(skbs) + 1
        key == IF last THEN last_run'.key ELSE stack'[Len(stack)].key
    IN /\ da.recirc
       /\ da.pkt_key = [key EXCEPT !.recirc_id = f.acts[f.i].arg]
       /\ key.recirc_id = f.key.recirc_id
       /\ IF last
          THEN /\ da.skb = f.skb
               /\ skbs' = [skbs EXCEPT ![f.skb].st = "fifo"]
               /\ last_run' = Returned([f EXCEPT !.key = key], "OK")
          ELSE /\ da.skb = clone
               /\ Len(skbs') = clone
               /\ skbs'[clone] = NewSkb(skbs[f.skb].data, "fifo")
               /\ skbs'[f.skb] = skbs[f.skb]
               /\ stack' = Append(Rest, nla_next([f EXCEPT !.key = key]))

\* No step changes an item that stays in the FIFO, nor its packet before the
\* drain takes it.
DeferredUntouched ==
    /\ \A j \in QueuedSlots :
          j \in (action_fifos'.tail)..(action_fifos'.head - 1) =>
             action_fifos'.fifo[j] = action_fifos.fifo[j]
    /\ \A id \in DOMAIN skbs :
          (skbs[id].st = "fifo" /\ stack' # <<>>) =>
             \/ skbs'[id] = skbs[id]
             \/ deq' = Append(deq, id)

\* C18: a RECIRC that is not the last action of its list defers a clone with a
\* copy of the key carrying the attribute's id, the original goes on to the
\* next action and the caller's key keeps its recirc id; a RECIRC that is the
\* last action of its list defers the original packet and returns; no later
\* step changes a deferred item or its packet before the drain takes it.
C18_RecircForksWithoutAliasing ==
    /\ [][(AtAction("RECIRC") /\ enq' # enq) =>
             RecircForked(Top, Top.i = Len(Top.acts))]_vars
    /\ [][DeferredUntouched]_vars

\* --------------------------------------------------------------------- C19
\* What a SAMPLE step of the activation f did; must tells whether a sampled
\* list that is neither empty nor the single USERSPACE has to be enqueued.
SampleEffect(f, must) ==
    LET a == f.acts[f.i]
        nested == a.acts
        clone == Len(skbs) + 1
        fast == Len(nested) = 1 /\ nested[1].op = "USERSPACE"
        failed == upcalls' # upcalls /\ ~upcalls'[Len(upcalls')].ok
        g == IF failed THEN last_run' ELSE stack'[Len(stack)]
        sampled == g.draw < a.arg
    IN /\ failed => fast /\ sampled
       /\ ~failed =>
             /\ stack' = Append(Rest, nla_next([f EXCEPT !.draw = g.draw]))
             /\ skbs'[f.skb] = skbs[f.skb]
       /\ IF sampled /\ fast
          THEN /\ upcalls' = Append(upcalls, Upcall("ACTION", f.skb, f.key, ~failed))
               /\ Len(skbs') = Len(skbs)
               /\ UNCHANGED <<action_fifos, enq, rejected>>
          ELSE IF sampled /\ nested # <<>>
          THEN /\ upcalls' = upcalls
               /\ IF must
                  THEN /\ enq' = Append(enq, clone)
                       /\ skbs' = Append(skbs, NewSkb(skbs[f.skb].data, "fifo"))
                       /\ action_fifos' =
                             [action_fifos EXCEPT
                                !.head = @ + 1,
                                !.fifo[action_fifos.head] =
                                   [skb |-> clone, recirc |-> FALSE,
                                    actions |-> nested, pkt_key |-> f.key]]
                  ELSE UNCHANGED <<action_fifos, enq>>
          ELSE /\ skbs' = skbs
               /\ UNCHANGED <<action_fifos, upcalls, enq, rejected>>

\* A deferred list runs only under the drain loop, on a packet taken from
\* the FIFO, and its steps leave the activations below it and their packets
\* alone.
DeferredRunsInDrain ==
    /\ [](\A j \in DOMAIN stack :
            stack[j].fn = "da" =>
               /\ j > 1
               /\ stack[j - 1].pc = "drain"
               /\ \E d \in DOMAIN deq : deq[d] = stack[j].skb)
    /\ [][(stack # <<>> /\ Top.fn = "da") =>
             \A j \in 1..(Len(stack) - 1) :
                /\ stack'[j] = stack[j]
                /\ skbs'[stack[j].skb] = skbs[stack[j].skb]]_vars

\* C19 as stated: a SAMPLE leaves its packet alone and runs nothing inline
\* but the upcall of a single USERSPACE, for which nothing is enqueued; every
\* other non-empty list that is sampled has exactly one clone enqueued with a
\* copy of the key and the nested list, and runs only in the drain.
C19_SampleDefersOneClone ==
    /\ [][AtAction("SAMPLE") => SampleEffect(Top, TRUE)]_vars
    /\ DeferredRunsInDrain

\* C19, amended: as above, but the one clone is enqueued only when skb_clone
\* succeeds and the FIFO has room; otherwise nothing is enqueued and the
\* SAMPLE is skipped.
C19_SampleDefersOneCloneIfRoom ==
    /\ [][AtAction("SAMPLE") =>
             SampleEffect(Top, /\ action_fifo_put_slot(action_fifos) >= 0
                               /\ faults' = faults)]_vars
    /\ DeferredRunsInDrain

\* The drain is running the two-action list of a SAMPLE on the clone, after
\* the sampled packet itself has been sent by the OUTPUT that followed.
C19_Witness ==
    /\ Len(stack) = 2
    /\ Top.fn = "da"
    /\ Top.pc = "loop"
    /\ Len(Top.acts) = 2
    /\ Top.skb = 2
    /\ enq = <<2>>
    /\ skbs[1].st = "sent"
    /\ skbs[2].data = skbs[1].data

\* ============================================ the VLAN actions on a packet
\* pop_vlan, push_vlan and push_mpls applied up to MaxVlanOps times to one
\* packet: skbs[1].data is the packet, stack[1].key the key of the activation,
\* calls the log of the calls made (op, the packet and key before, err).
MaxVlanOps == 3

\* The in-band tags a packet may arrive with.
InbandStacks ==
    { <<>>,
      <<[tci |-> InbandTci, proto |-> "IP"]>>,
      <<[tci |-> InbandTci, proto |-> "8021Q"], [tci |-> NewTci, proto |-> "IP"]>> }

VlanPackets ==
    { [PlainPacket EXCEPT
          !.vlan_tci = accel, !.tags = tags,
          !.h_proto = IF tags = <<>> THEN "IP" ELSE "8021Q",
          !.protocol = IF tags = <<>> THEN "IP" ELSE "8021Q",
          !.mac_len = ETH_HLEN + VLAN_HLEN * Len(tags)]
      : accel \in {0, AccelTci}, tags \in InbandStacks }

VlanKey == stack[1].key

CanVlan ==
    /\ skbs[1].st = "live"
    /\ Len(calls) < MaxVlanOps

\* The executor after the mutator returned r: lines 918-921.
VlanApplied(op, r) ==
    /\ skbs' = IF r.err = "OK" THEN [skbs EXCEPT ![1].data = r.p]
               ELSE Release([skbs EXCEPT ![1].data = r.p], 1, "freed")
    /\ stack' = <<[stack[1] EXCEPT !.key = r.k]>>
    /\ calls' = Append(calls, [op |-> op, old |-> Hdr, oldkey |-> VlanKey,
                               err |-> r.err])
    /\ faults' = faults - r.f
    /\ UNCHANGED <<exec_actions_level, action_fifos, flow, packets, upcalls, enq,
                   deq, rejected, last_run, result>>

PopVlanHdr ==
    /\ CanVlan
    /\ \E r \in pop_vlan(Hdr, VlanKey, faults) : VlanApplied("pop_vlan", r)

PushVlanHdr ==
    /\ CanVlan
    /\ \E r \in push_vlan(Hdr, VlanKey, NewTci, faults) : VlanApplied("push_vlan", r)

PushMplsHdr ==
    /\ CanVlan
    /\ \E r \in push_mpls(Hdr, VlanKey, faults) : VlanApplied("push_mpls", r)

InitVlan ==
    /\ exec_actions_level = 0
    /\ action_fifos = [head |-> 0, tail |-> 0,
                       fifo |-> [i \in 0..(DEFERRED_ACTION_FIFO_SIZE - 1) |-> NoItem]]
    /\ \E p \in VlanPackets, valid \in BOOLEAN :
          /\ skbs = <<NewSkb(p, "live")>>
          /\ stack = <<Frame("ovs", "rx", <<>>, 0, 1,
                             [ReceiveKey(p) EXCEPT !.valid = valid])>>
    /\ flow = <<>>
    /\ faults = MaxFaults
    /\ packets = 1
    /\ upcalls = <<>>
    /\ calls = <<>>
    /\ enq = <<>>
    /\ deq = <<>>
    /\ rejected = {}
    /\ last_run = NoFrame
    /\ result = "NONE"

NextVlan ==
    \/ PopVlanHdr
    \/ PushVlanHdr
    \/ PushMplsHdr

SpecVlan == InitVlan /\ [][NextVlan]_vars

\* --------------------------------------------------------------------- C20
\* The in-band 802.1Q headers of the packet p: those the ethertypes announce.
RECURSIVE InbandDepth(_, _)
InbandDepth(proto, tags) ==
    IF proto = "8021Q" /\ tags # <<>>
    THEN 1 + InbandDepth(tags[1].proto, Tail(tags))
    ELSE 0

\* The tags of p as one stack of tci values, the accel tag first.
LogicalStack(p) ==
    (IF p.vlan_tci # 0 THEN <<p.vlan_tci>> ELSE <<>>)
    \o [i \in 1..InbandDepth(p.h_proto, p.tags) |-> p.tags[i].tci]

\* What p carries under its tags.
Untagged(p) ==
    LET n == InbandDepth(p.h_proto, p.tags)
    IN [proto |-> IF n = 0 THEN p.h_proto ELSE p.tags[n].proto,
        rest |-> SubSeq(p.tags, n + 1, Len(p.tags)),
        mpls |-> p.mpls, inner |-> p.inner, mark |-> p.mark, ttl |-> p.ttl]

KeyAfter(j) == IF j = Len(calls) THEN VlanKey ELSE calls[j + 1].oldkey

\* The in-band headers a call pulled.
Pulled(old, new) == Len(old.tags) - Len(new.tags)

\* C20: a successful pop_vlan leaves a packet without tag and its key as they
\* are; otherwise it removes the outermost tag of the logical stack and
\* nothing else, and then either an in-band tag has become outermost, is in
\* the accel slot with mac_len 4 less for the move, and the key is invalid, or
\* no tag is left, the key's tci is 0 and the key is as valid as before.
C20_PopVlanRemovesOutermost ==
    \A j \in Done("pop_vlan") :
        LET old == calls[j].old
            new == After(j)
            S == LogicalStack(old)
            pull == IF old.vlan_tci # 0 THEN 0 ELSE 1
        IN IF S = <<>>
           THEN new = old /\ KeyAfter(j) = calls[j].oldkey
           ELSE /\ LogicalStack(new) = Tail(S)
                /\ Untagged(new) = Untagged(old)
                /\ IF Len(S) >= 2
                   THEN /\ new.vlan_tci = S[2]
                        /\ Pulled(old, new) = pull + 1
                        /\ new.mac_len = old.mac_len - (pull + 1) * VLAN_HLEN
                        /\ ~KeyAfter(j).valid
                   ELSE /\ new.vlan_tci = 0
                        /\ Pulled(old, new) = pull
                        /\ new.mac_len = old.mac_len - pull * VLAN_HLEN
                        /\ KeyAfter(j) = [calls[j].oldkey EXCEPT !.tci = 0]

\* A pop_vlan on a packet with two in-band tags and no accel tag pulled the
\* first and moved the second to the accel slot.
C20_Witness ==
    \E j \in Done("pop_vlan") :
        /\ calls[j].old.vlan_tci = 0
        /\ Len(LogicalStack(calls[j].old)) = 2
        /\ calls[j].oldkey.valid
        /\ After(j).vlan_tci = NewTci
        /\ After(j).tags = <<>>

\* --------------------------------------------------------------------- C21
\* The drain is executing an item: the activation above the draining call.
Draining == Len(stack) >= 2 /\ stack[1].pc = "drain"

\* C21: 0 <= tail <= head <= 9 in every state; head goes down only in the
\* reset that ends a drain pass, where both indices become 0; and while head
\* does not go down no slot below it changes, so neither an item waiting nor
\* the item the drain is executing (the slot before tail) is overwritten by
\* an insertion.
C21_FifoSlotsStable ==
    /\ [](/\ 0 <= action_fifos.tail
          /\ action_fifos.tail <= action_fifos.head
          /\ action_fifos.head <= DEFERRED_ACTION_FIFO_SIZE - 1
          /\ Draining =>
                /\ action_fifos.tail >= 1
                /\ action_fifos.fifo[action_fifos.tail - 1].skb = stack[2].skb)
    /\ [][action_fifos'.head < action_fifos.head =>
             /\ Len(stack) = 1
             /\ Top.pc = "drain"
             /\ action_fifo_is_empty(action_fifos)
             /\ action_fifos'.head = 0
             /\ action_fifos'.tail = 0
             /\ stack' = <<>>]_vars
    /\ [][\A j \in 0..(action_fifos.head - 1) :
             action_fifos'.fifo[j] = action_fifos.fifo[j]]_vars

\* The flow that recirculates into itself: while the drain runs the
\* re-dispatched packet, its RECIRC has put a second item in slot 1, next to
\* the slot of the item being executed.
C21_Witness ==
    /\ flow = <<Recirc(RecircFlow)>>
    /\ Draining
    /\ action_fifos.tail = 1
    /\ action_fifos.head = 2
    /\ action_fifos.fifo[0].skb = stack[2].skb
    /\ action_fifos.fifo[1].recirc

\* --------------------------------------------------------------------- C22
\* C22: every outermost call returns; during one outermost call, its drain
\* included, at most 9 items are accepted and at most 9 taken, the accepted
\* items use the slots 0..head-1 in order and none twice; a SAMPLE or RECIRC
\* reached with 9 items accepted adds none, and the packet it meant to defer
\* is freed.
C22_OutermostCallTerminates ==
    /\ ~Idle ~> Idle
    /\ [](/\ Len(enq) <= DEFERRED_ACTION_FIFO_SIZE - 1
          /\ Len(deq) <= DEFERRED_ACTION_FIFO_SIZE - 1
          /\ ~Idle => /\ Len(enq) = action_fifos.head
                      /\ \A j \in DOMAIN enq : action_fifos.fifo[j - 1].skb = enq[j])
    /\ [][(/\ AtAction("SAMPLE") \/ AtAction("RECIRC")
           /\ Len(enq) = DEFERRED_ACTION_FIFO_SIZE - 1) =>
             /\ enq' = enq
             /\ action_fifos' = action_fifos
             /\ \A id \in DOMAIN skbs' :
                   (id \notin DOMAIN skbs \/ skbs'[id] # skbs[id]) =>
                      /\ skbs'[id].st = "freed"
                      /\ skbs'[id].rel = 1]_vars

\* A flow that samples and recirculates into itself has returned: nine items
\* were accepted and drained, sample clones and recirculated packets among
\* them, and the deferrals after the ninth were refused.
C22_Witness ==
    /\ Idle
    /\ packets > 0
    /\ Len(flow) = 2
    /\ flow[1].op = "SAMPLE"
    /\ flow[2] = Recirc(RecircFlow)
    /\ Len(deq) = DEFERRED_ACTION_FIFO_SIZE - 1
    /\ Cardinality(rejected) >= 2

\* --------------------------------------------------------------------- C23
\* The last upcall made failed.
UpcallFailed(u) == u # <<>> /\ ~u[Len(u)].ok

\* The OUTPUT actions of the list of f from position j on.
OutputsFrom(f, j) == {n \in j..Len(f.acts) : f.acts[n].op = "OUTPUT"}

\* C23: a USERSPACE action of a list makes its upcall and, failed or not, the
\* list goes on with the next action and the packet stays with the executor;
\* a failed upcall of a SAMPLE whose list is one USERSPACE frees the packet
\* and ends the list with the upcall's error, so no action after the SAMPLE,
\* OUTPUT or other, is run.
C23_UpcallFailureHandling ==
    /\ [][AtAction("USERSPACE") =>
             /\ \E ok \in BOOLEAN :
                   upcalls' = Append(upcalls, Upcall("ACTION", Top.skb, Top.key, ok))
             /\ stack' = Append(Rest, nla_next(Top))
             /\ skbs' = skbs
             /\ skbs[Top.skb].st = "live"
             /\ UNCHANGED <<last_run, result>>]_vars
    /\ [][(AtAction("SAMPLE") /\ upcalls' # upcalls /\ UpcallFailed(upcalls')) =>
             /\ Top.acts[Top.i].acts = <<Userspace>>
             /\ upcalls' = Append(upcalls, Upcall("ACTION", Top.skb, Top.key, FALSE))
             /\ skbs[Top.skb].st = "live"
             /\ skbs' = Release(skbs, Top.skb, "freed")
             /\ last_run'.err = output_userspace(FALSE)
             /\ last_run'.i = Top.i
             /\ last_run'.out = Top.out
             /\ last_run'.prev_port = NoPort
             /\ stack' = IF Top.fn = "ovs" THEN Append(Rest, last_run') ELSE Rest]_vars
    /\ [](\A j \in DOMAIN stack :
             (Failed(stack[j]) /\ stack[j].acts[stack[j].i].op = "SAMPLE") =>
                /\ skbs[stack[j].skb].st = "freed"
                /\ skbs[stack[j].skb].rel = 1
                /\ \A o \in DOMAIN stack[j].out : stack[j].out[o].skb # stack[j].skb
                /\ j = 1 /\ stack[j].pc = "post" /\ Len(stack) = 1
                      => Len(stack[j].out) <= stack[j].i - 1)

\* The upcall of a SAMPLE with the single USERSPACE has failed: the list has
\* ended with the error, its packet freed, and the OUTPUT after the SAMPLE
\* was never made.
C23_Witness ==
    /\ UpcallFailed(upcalls)
    /\ Failed(last_run)
    /\ last_run.acts[last_run.i].op = "SAMPLE"
    /\ OutputsFrom(last_run, last_run.i + 1) # {}
    /\ last_run.out = <<>>
    /\ skbs[last_run.skb].st = "freed"
    /\ Idle
    /\ result = output_userspace(FALSE)

====
